---- MODULE Spec2Model ----
(***************************************************************************)
(* Model of neupy/network/constructor.py: normalisation of the layer       *)
(* connection, construction of ConstructableNetwork (layer initialisation, *)
(* Theano variables, compiled functions, train updates) and the calls the  *)
(* constructed network offers.                                             *)
(***************************************************************************)
EXTENDS Integers, Sequences, FiniteSets, TLC

\* ------------------------------------------------------------------ bounds
\* longest topology given to the constructor
MaxLen == 3
\* largest unit count in an integer topology
MaxUnits == 2
\* parameter values are 0 .. Modulus-1
Modulus == 3
\* largest input_layer.weight.ndim tried
MaxNdim == 5

Data == 0 .. 1
Masks == 0 .. 1
\* values of the step option, and epoch indexes handed to
\* on_epoch_start_update
Steps == {1, 2}
Epochs == {1, 2}

\* ------------------------------------------------------------------ layers
\* a layer is known to this module by its class only
Sigmoid == [kind |-> "Sigmoid"]
Dropout == [kind |-> "Dropout"]
Output == [kind |-> "Output"]

LayerChoices == {Sigmoid, Dropout, Output}

\* layer.parameters, in declared order
parameters(layer) ==
    IF layer.kind = "Sigmoid" THEN <<"weight", "bias">> ELSE <<>>

SeqsUpTo(S, lo, hi) == UNION {[1..n -> S] : n \in lo..hi}

\* a LayerConnection as a constructor argument or as self.connection
Linked(ls) == [form |-> "conn", sizes |-> <<>>, items |-> ls]

\* the topologies handed to the constructor
Connections ==
    {[form |-> "ints", sizes |-> s, items |-> <<>>] :
        s \in SeqsUpTo(1..MaxUnits, 1, MaxLen)}
    \cup {[form |-> f, sizes |-> <<>>, items |-> l] :
        f \in {"layers"}, l \in SeqsUpTo(LayerChoices, 1, MaxLen)}
    \cup {[form |-> f, sizes |-> <<>>, items |-> l] :
        f \in {"connlist"}, l \in SeqsUpTo(LayerChoices, 2, MaxLen)}
    \cup {Linked(l) : l \in SeqsUpTo(LayerChoices, 2, MaxLen)}

\* neupy.layers.utils.generate_layers: one layer per unit count, the last
\* one wrapped as the Output layer
generate_layers(sizes) ==
    [i \in 1..Len(sizes) |->
        IF i = Len(sizes) THEN Output ELSE Sigmoid]

Front(s) == SubSeq(s, 1, Len(s) - 1)
Last(s) == s[Len(s)]

\* LayerConnection(left, right): the chain that yields left, then right's
\* layers
LayerConnection(layer, chain) == <<layer>> \o chain

\* the loop of clean_layers: for layer in reversed(connection)
RECURSIVE chain_reversed(_, _)
chain_reversed(rest, chain_connection) ==
    IF rest = <<>> THEN chain_connection
    ELSE chain_reversed(Front(rest),
                        LayerConnection(Last(rest), chain_connection))

\* the object bound to `connection` before the output_layer check
\* (type of the object, and the layers it yields when iterated)
normalized(connection) ==
    LET asList == IF connection.form = "ints"
                  THEN generate_layers(connection.sizes)
                  ELSE connection.items
        islist == connection.form \in {"ints", "layers", "connlist"}
    IN  IF islist /\ connection.form # "connlist"
        THEN IF Len(asList) = 1
             THEN [type |-> "BaseLayer", layers |-> asList]
             ELSE [type |-> "LayerConnection",
                   layers |-> chain_reversed(Front(asList), <<Last(asList)>>)]
        ELSE IF islist
        THEN [type |-> "list", layers |-> asList]
        ELSE [type |-> "LayerConnection", layers |-> asList]

\* clean_layers(connection): the pipeline, or the exception raised
clean_layers(connection) ==
    LET obj == normalized(connection)
    IN  IF obj.type # "LayerConnection"
        THEN [raised |-> "AttributeError", layers |-> <<>>]
        ELSE IF Last(obj.layers).kind # "Output"
        THEN [raised |-> "NetworkConnectionError", layers |-> <<>>]
        ELSE [raised |-> "", layers |-> obj.layers]


\* ------------------------------------------------------ Theano variables
\* create_input_variable: the rank of the variable created for
\* input_layer.weight.ndim, or the exception raised
dim_to_variable_type == (2 :> "matrix") @@ (3 :> "tensor3") @@ (4 :> "tensor4")

variable_rank(variable_type) ==
    CASE variable_type = "matrix" -> 2
      [] variable_type = "tensor3" -> 3
      [] variable_type = "tensor4" -> 4

\* variant: only ranks above 4 are refused
create_input_variable_upper_only(input_ndim) ==
    IF input_ndim > 4
    THEN [raised |-> "ValueError", rank |-> 0]
    ELSE [raised |-> "", rank |-> input_ndim]

create_input_variable(input_ndim) ==
    IF input_ndim \notin DOMAIN dim_to_variable_type
    THEN [raised |-> "ValueError", rank |-> 0]
    ELSE [raised |-> "", rank |-> variable_rank(dim_to_variable_type[input_ndim])]

\* an expression is the sequence of layer positions whose output() was
\* applied, in order, to network_input
layer_output(i, expr) == Append(expr, i)

\* init_variables: the loop over train_layers; returns
\* <<layer_input, train_layer_input>>
\* variant: the inference pass applies the Dropout layers too
skips_inference_never(layer) == FALSE

skips_inference(layer) == layer.kind = "Dropout"

RECURSIVE forward_passes(_, _, _, _)
forward_passes(train_layers, i, layer_input, train_layer_input) ==
    IF i > Len(train_layers) THEN <<layer_input, train_layer_input>>
    ELSE forward_passes(train_layers, i + 1,
            IF ~skips_inference(train_layers[i])
            THEN layer_output(i, layer_input) ELSE layer_input,
            layer_output(i, train_layer_input))

\* ---------------------------------------------------------- train updates
Hooks == {"default", "sgd", "biasonly", "dup"}

ParamId(i, name) == [layer |-> i, name |-> name]
Rule(target, expr) == [target |-> target, expr |-> expr]

\* the body of init_param_updates: the base one, and the overrides that
\* subclasses supply with the (layer, parameter) signature
init_param_updates(h, i, name) ==
    CASE h = "default" -> <<>>
      [] h = "sgd" -> IF name = "weight"
                      THEN <<Rule(ParamId(i, name), "addstep")>>
                      ELSE <<Rule(ParamId(i, name), "addweight")>>
      [] h = "biasonly" -> IF name = "bias"
                           THEN <<Rule(ParamId(i, name), "addstep")>>
                           ELSE <<>>
      [] h = "dup" -> IF name = "weight"
                      THEN <<Rule(ParamId(i, name), "addstep"),
                             Rule(ParamId(i, name), "addweight")>>
                      ELSE <<>>

\* number of arguments besides self that the hook's definition accepts:
\* the base definition is init_param_updates(self, parameter)
hook_arity(h) == IF h = "default" THEN 1 ELSE 2

\* init_layer_updates: calls self.init_param_updates(layer, parameter)
RECURSIVE init_layer_updates(_, _, _, _, _)
init_layer_updates(h, i, names, k, updates) ==
    IF k > Len(names) THEN [raised |-> "", updates |-> updates]
    ELSE IF hook_arity(h) # 2 THEN [raised |-> "TypeError", updates |-> <<>>]
    ELSE init_layer_updates(h, i, names, k + 1,
                            updates \o init_param_updates(h, i, names[k]))

RECURSIVE init_train_updates(_, _, _, _)
init_train_updates(h, train_layers, i, updates) ==
    IF i > Len(train_layers) THEN [raised |-> "", updates |-> updates]
    ELSE LET r == init_layer_updates(h, i, parameters(train_layers[i]), 1, <<>>)
         IN  IF r.raised # "" THEN r
             ELSE init_train_updates(h, train_layers, i + 1,
                                     updates \o r.updates)

has_duplicate_target(updates) ==
    \E a, b \in 1..Len(updates) : a # b /\ updates[a].target = updates[b].target

\* theano.function(..., updates=...): refuses a shared variable that
\* already has an update expression
compile_updates(updates) ==
    IF has_duplicate_target(updates) THEN "ValueError" ELSE ""

\* ------------------------------------------------------------ evaluation
forward(layer, i, x, P, mask) ==
    CASE layer.kind = "Sigmoid" ->
            (x * P[ParamId(i, "weight")] + P[ParamId(i, "bias")]) % Modulus
      [] layer.kind = "Dropout" -> mask * x
      [] layer.kind = "Output" -> x

RECURSIVE eval_expr(_, _, _, _, _, _)
eval_expr(expr, k, ls, x, P, mask) ==
    IF k > Len(expr) THEN x
    ELSE eval_expr(expr, k + 1, ls, forward(ls[expr[k]], expr[k], x, P, mask),
                   P, mask)

\* the error function: (expected, predicted) -> scalar
error(expected, predicted) ==
    IF expected >= predicted THEN expected - predicted
    ELSE predicted - expected

eval_rule(rule, P, shared_step) ==
    CASE rule.expr = "addstep" -> (P[rule.target] + shared_step) % Modulus
      [] rule.expr = "addweight" ->
            (P[rule.target] + P[ParamId(rule.target.layer, "weight")]) % Modulus

\* variant: the rules are applied one after the other, each reading the
\* values the earlier ones stored
RECURSIVE apply_in_turn(_, _, _, _)
apply_in_turn(P, updates, k, shared_step) ==
    IF k > Len(updates) THEN P
    ELSE apply_in_turn(
            [P EXCEPT ![updates[k].target] = eval_rule(updates[k], P, shared_step)],
            updates, k + 1, shared_step)

apply_updates_sequential(P, updates, shared_step) ==
    apply_in_turn(P, updates, 1, shared_step)

\* the updates of a compiled function: every new value is computed from
\* the values held before the call, then all are stored
apply_updates(P, updates, shared_step) ==
    [p \in DOMAIN P |->
        IF \E k \in 1..Len(updates) : updates[k].target = p
        THEN eval_rule(updates[CHOOSE k \in 1..Len(updates) :
                                    updates[k].target = p], P, shared_step)
        ELSE P[p]]

\* the parameters the layers of the pipeline own once initialize() has run
initial_parameters(train_layers) ==
    [p \in {ParamId(i, parameters(train_layers[i])[k]) :
                <<i, k>> \in {<<i, k>> \in (1..Len(train_layers)) \X (1..2) :
                                k <= Len(parameters(train_layers[i]))}} |->
        IF p.name = "weight" THEN 1 ELSE 0]

\* variant: initialize() is called from the last trainable layer backwards
init_layers_reversed(train_layers) ==
    [i \in 1..Len(train_layers) |-> Len(train_layers) - i + 1]

\* init_layers: the positions on which initialize() is called, in order
init_layers(train_layers) == [i \in 1..Len(train_layers) |-> i]

Event(ev, arg) == [ev |-> ev, arg |-> arg]


\* ------------------------------------------------------------------ state
VARIABLES
    connection,     \* the connection argument, then self.connection
    hook,           \* which init_param_updates the network class has
    ndim,           \* input_layer.weight.ndim
    step,           \* the network's step attribute
    last_epoch,     \* the network's last_epoch attribute
    pc,             \* position in __init__, then "ready" or "failed"
    raised,         \* the exception __init__ raised, "" when none
    layers,         \* self.layers
    params,         \* value of every Parameter of the pipeline's layers
    variables,      \* self.variables
    methods,        \* names of the compiled functions in self.methods
    train_updates,  \* the updates handed to theano.function for train_epoch
    log,            \* initialize() / init_variables / compile events so far
    last            \* the last call on the constructed network

vars == <<connection, hook, ndim, step, last_epoch, pc, raised, layers,
          params, variables, methods, train_updates, log, last>>

inputs == <<hook, ndim>>

train_layers == Front(layers)

no_variables ==
    [network_input |-> 0, step |-> 0, epoch |-> 0,
     prediction_func |-> <<>>, train_prediction_func |-> <<>>,
     built |-> FALSE]

no_call ==
    [op |-> "", input |-> 0, target |-> 0, mask |-> 0, pre |-> <<>>,
     ret |-> 0]

Call(op, input, target, mask, pre, ret) ==
    [op |-> op, input |-> input, target |-> target, mask |-> mask,
     pre |-> pre, ret |-> ret]

Init ==
    /\ connection \in Connections
    /\ hook \in Hooks
    /\ ndim \in 1..MaxNdim
    /\ step \in Steps
    /\ last_epoch = 0
    /\ pc = "clean_layers"
    /\ raised = ""
    /\ layers = <<>>
    /\ params = <<>>
    /\ variables = no_variables
    /\ methods = {}
    /\ train_updates = <<>>
    /\ log = <<>>
    /\ last = no_call

Fail(exception) ==
    /\ pc' = "failed"
    /\ raised' = exception

\* __init__, line 201-207: self.connection = clean_layers(connection) and
\* the layer attributes
CleanLayers ==
    /\ pc = "clean_layers"
    /\ LET r == clean_layers(connection)
       IN  IF r.raised # ""
           THEN Fail(r.raised) /\ UNCHANGED <<connection, layers>>
           ELSE /\ pc' = "init_layers"
                /\ connection' = Linked(r.layers)
                /\ layers' = r.layers
                /\ UNCHANGED raised
    /\ UNCHANGED <<inputs, step, last_epoch, params, variables, methods,
                   train_updates, log, last>>

\* __init__, line 209-210: self.init_layers()
InitLayers ==
    /\ pc = "init_layers"
    /\ pc' = "create_variables"
    /\ log' = log \o [k \in 1..Len(init_layers(train_layers)) |->
                        Event("initialize", init_layers(train_layers)[k])]
    /\ params' = initial_parameters(train_layers)
    /\ UNCHANGED <<connection, inputs, step, last_epoch, raised, layers, variables,
                   methods, train_updates, last>>

\* __init__, line 216-222: the input variable and the empty self.methods
CreateVariables ==
    /\ pc = "create_variables"
    /\ LET r == create_input_variable(ndim)
       IN  IF r.raised # ""
           THEN Fail(r.raised) /\ UNCHANGED variables
           ELSE /\ pc' = "init_variables"
                /\ variables' = [variables EXCEPT !.network_input = r.rank]
                /\ UNCHANGED raised
    /\ UNCHANGED <<connection, inputs, step, last_epoch, layers, params, methods,
                   train_updates, log, last>>

\* init_variables
InitVariables ==
    /\ pc = "init_variables"
    /\ pc' = "init_methods"
    /\ LET passes == forward_passes(train_layers, 1, <<>>, <<>>)
       IN  variables' = [variables EXCEPT
                            !.step = step,
                            !.epoch = last_epoch,
                            !.prediction_func = passes[1],
                            !.train_prediction_func = passes[2],
                            !.built = TRUE]
    /\ log' = Append(log, Event("init_variables", 0))
    /\ UNCHANGED <<connection, inputs, step, last_epoch, raised, layers, params, methods,
                   train_updates, last>>

\* init_methods: predict_raw is compiled, then the updates are generated
\* and train_epoch is compiled, then prediction_error
InitMethods ==
    /\ pc = "init_methods"
    /\ LET r == init_train_updates(hook, train_layers, 1, <<>>)
       IN  IF r.raised # ""
           THEN /\ Fail(r.raised)
                /\ methods' = {"predict_raw"}
                /\ log' = log \o <<Event("init_methods", 0),
                                   Event("compile", 1)>>
                /\ UNCHANGED train_updates
           ELSE IF compile_updates(r.updates) # ""
           THEN /\ Fail(compile_updates(r.updates))
                /\ methods' = {"predict_raw"}
                /\ train_updates' = r.updates
                /\ log' = log \o <<Event("init_methods", 0),
                                   Event("compile", 1)>>
           ELSE /\ pc' = "ready"
                /\ methods' = {"predict_raw", "train_epoch",
                               "prediction_error"}
                /\ train_updates' = r.updates
                /\ log' = log \o <<Event("init_methods", 0),
                                   Event("compile", 1), Event("compile", 2),
                                   Event("compile", 3)>>
                /\ UNCHANGED raised
    /\ UNCHANGED <<connection, inputs, step, last_epoch, layers, params, variables, last>>

\* what the random streams of the pipeline's Dropout layers can draw
drawn_masks ==
    IF \E i \in 1..Len(train_layers) : train_layers[i].kind = "Dropout"
    THEN Masks ELSE {1}

loss(P, input, target, mask) ==
    error(target, eval_expr(variables.train_prediction_func, 1, layers,
                            input, P, mask))

\* train_epoch(input_train, target_train); mask is what the Dropout
\* layers' random stream draws during the call
train_epoch(input, target, mask) ==
    /\ pc = "ready"
    /\ params' = apply_updates(params, train_updates, variables.step)
    /\ last' = Call("train_epoch", input, target, mask, params,
                    loss(params, input, target, mask))
    /\ UNCHANGED <<connection, inputs, step, last_epoch, pc, raised, layers, variables,
                   methods, train_updates, log>>

prediction_error(input, target, mask) ==
    /\ pc = "ready"
    /\ last' = Call("prediction_error", input, target, mask, params,
                    loss(params, input, target, mask))
    /\ UNCHANGED <<connection, inputs, step, last_epoch, pc, raised, layers, params,
                   variables, methods, train_updates, log>>

predict_raw_value(input) ==
    eval_expr(variables.prediction_func, 1, layers, input, params, 1)

predict_raw(input) ==
    /\ pc = "ready"
    /\ last' = Call("predict_raw", input, 0, 0, params,
                    predict_raw_value(input))
    /\ UNCHANGED <<connection, inputs, step, last_epoch, pc, raised, layers, params,
                   variables, methods, train_updates, log>>

predict(input) ==
    /\ pc = "ready"
    /\ last' = Call("predict", input, 0, 0, params,
                    forward(Last(layers), Len(layers),
                            predict_raw_value(input), params, 1))
    /\ UNCHANGED <<connection, inputs, step, last_epoch, pc, raised, layers, params,
                   variables, methods, train_updates, log>>

on_epoch_start_update(epoch) ==
    /\ pc = "ready"
    /\ last_epoch' = epoch
    /\ variables' = [variables EXCEPT !.epoch = epoch]
    /\ last' = Call("on_epoch_start_update", epoch, 0, 0, params, 0)
    /\ UNCHANGED <<connection, inputs, step, pc, raised, layers, params, methods,
                   train_updates, log>>

\* the caller assigns the step attribute of the constructed network
SetStep(value) ==
    /\ pc = "ready"
    /\ value # step
    /\ step' = value
    /\ last' = Call("set_step", value, 0, 0, params, 0)
    /\ UNCHANGED <<connection, inputs, last_epoch, pc, raised, layers, params, variables,
                   methods, train_updates, log>>

Next ==
    \/ CleanLayers
    \/ InitLayers
    \/ CreateVariables
    \/ InitVariables
    \/ InitMethods
    \/ \E input \in Data, target \in Data, mask \in drawn_masks :
            train_epoch(input, target, mask)
    \/ \E input \in Data, target \in Data, mask \in drawn_masks :
            prediction_error(input, target, mask)
    \/ \E input \in Data : predict_raw(input)
    \/ \E input \in Data : predict(input)
    \/ \E epoch \in Epochs : on_epoch_start_update(epoch)
    \/ \E value \in Steps : SetStep(value)

Spec == Init /\ [][Next]_vars


\* ----------------------------------------------------------------- claims
Kinds(ls) == [i \in 1..Len(ls) |-> ls[i].kind]

EventsOf(ev) == SelectSeq(log, LAMBDA e : e.ev = ev)
Args(events) == [k \in 1..Len(events) |-> events[k].arg]
Positions(ev) == {k \in 1..Len(log) : log[k].ev = ev}

generation_ran == Positions("init_methods") # {}

\* the rule the updates hold for parameter p, when there is one
HasRule(p) == \E k \in 1..Len(train_updates) : train_updates[k].target = p
RuleOf(p) ==
    train_updates[CHOOSE k \in 1..Len(train_updates) :
                    train_updates[k].target = p]

\* C1: with the default hook, also over pipelines whose trainable layers
\* have parameters, the network is constructed (nothing fails once the
\* variables exist), every Parameter keeps the value it had after
\* construction whatever train_epoch calls were made, and prediction_error
\* returns the value it returns on those construction-time values.
C1_DefaultHookKeepsParameters ==
    hook = "default" =>
        /\ (pc = "failed" => methods = {})
        /\ (pc = "ready" => params = initial_parameters(train_layers))
        /\ (pc = "ready" /\ last.op = "prediction_error" =>
                last.ret = loss(initial_parameters(train_layers),
                                last.input, last.target, last.mask))

\* C2: train_epoch returns the loss of the Parameter values held before the
\* call; afterwards every Parameter with a rule holds that rule's value
\* computed from the values held before the call, and every other
\* Parameter is unchanged.
C2_TrainEpochAtomic ==
    last.op = "train_epoch" =>
        /\ last.ret = loss(last.pre, last.input, last.target, last.mask)
        /\ DOMAIN params = DOMAIN last.pre
        /\ \A p \in DOMAIN params :
                params[p] = IF HasRule(p)
                            THEN eval_rule(RuleOf(p), last.pre, variables.step)
                            ELSE last.pre[p]

C2_Witness ==
    /\ last.op = "train_epoch"
    /\ Len(train_updates) >= 2
    /\ \E p \in DOMAIN params : HasRule(p) /\ params[p] # last.pre[p]
    /\ \E p \in DOMAIN params : HasRule(p) /\ RuleOf(p).expr = "addweight"

\* the hook results for layers i.. of the trainable layers, parameters in
\* declared order
RECURSIVE HookResultsFrom(_)
HookResultsFrom(i) ==
    IF i > Len(train_layers) THEN <<>>
    ELSE LET names == parameters(train_layers[i])
             one(k) == init_param_updates(hook, i, names[k])
         IN  (IF Len(names) = 0 THEN <<>>
              ELSE IF Len(names) = 1 THEN one(1)
              ELSE one(1) \o one(2))
             \o HookResultsFrom(i + 1)

\* C3: update generation calls the hook for every parameter of every
\* trainable layer, in pipeline order then declaration order, each call
\* returns, and the generated sequence is the concatenation of the
\* results; with the default hook it is empty.
C3_RulesAreHookResultsInOrder ==
    generation_ran =>
        /\ raised # "TypeError"
        /\ (raised = "" \/ train_updates # <<>> =>
                train_updates = HookResultsFrom(1))
        /\ (hook = "default" => train_updates = <<>>)

\* C4: the rule sequence handed to the compilation of train_epoch holds at
\* most one rule per Parameter.
C4_OneRulePerParameter ==
    ~has_duplicate_target(train_updates)

\* C5: the training-mode expression applies every trainable layer in
\* order; the inference-mode expression is the same composition without
\* the Dropout layers, so the two are equal when there is no Dropout
\* layer and differ when there is one.
C5_PassesDivergeOnlyAtDropout ==
    variables.built =>
        LET n == Len(train_layers)
            all == [i \in 1..n |-> i]
            dropouts == {i \in 1..n : train_layers[i].kind = "Dropout"}
        IN  /\ variables.train_prediction_func = all
            /\ variables.prediction_func =
                    SelectSeq(all, LAMBDA i : i \notin dropouts)
            /\ (dropouts = {} =>
                    variables.prediction_func = variables.train_prediction_func)
            /\ (dropouts # {} =>
                    variables.prediction_func # variables.train_prediction_func)

C5_Witness ==
    /\ variables.built
    /\ Len(train_layers) = 2
    /\ train_layers[1].kind = "Sigmoid"
    /\ train_layers[2].kind = "Dropout"
    /\ variables.prediction_func = <<1>>

\* the layer a documented topology ends with
TerminalKind ==
    IF connection.form = "ints" THEN "Output"
    ELSE Last(connection.items).kind

\* C6: a topology (integers, layers or pre-linked connection) that does
\* not end with an Output layer makes construction raise
\* NetworkConnectionError before any initialize() call, variable or
\* compiled function; a pipeline that gets past normalisation ends with an
\* Output layer.
C6_NonOutputTerminalRejected ==
    /\ (/\ connection.form \in {"ints", "layers", "conn"}
        /\ TerminalKind # "Output"
        /\ pc # "clean_layers") =>
            /\ pc = "failed"
            /\ raised = "NetworkConnectionError"
            /\ log = <<>>
            /\ variables = no_variables
            /\ methods = {}
    /\ (layers # <<>> => Last(layers).kind = "Output")

SingleLayerTopology ==
    \/ connection.form = "ints" /\ Len(connection.sizes) = 1
    \/ connection.form = "layers" /\ Len(connection.items) = 1

\* C7: a topology of exactly one unit count or one layer makes
\* normalisation raise NetworkConnectionError and never yields a pipeline.
C7_SingleLayerRejected ==
    (SingleLayerTopology /\ pc # "clean_layers") =>
        /\ pc = "failed"
        /\ raised = "NetworkConnectionError"
        /\ layers = <<>>

\* C8: with an input rank other than 2, 3 or 4 construction never gets
\* past the creation of the input variable and fails there with no
\* compiled function created; with rank 2, 3 or 4 the input variable has
\* exactly that rank.
C8_InputRank ==
    /\ (ndim \notin {2, 3, 4} =>
            /\ pc \notin {"init_variables", "init_methods", "ready"}
            /\ methods = {}
            /\ variables.network_input = 0
            /\ (pc = "failed" /\ layers # <<>> => raised = "ValueError"))
    /\ (ndim \in {2, 3, 4} /\ layers # <<>>
            /\ pc \notin {"init_layers", "create_variables"} =>
            variables.network_input = ndim)

C8_Witness ==
    /\ ndim \notin {2, 3, 4}
    /\ pc = "failed"
    /\ raised = "ValueError"
    /\ Len(EventsOf("initialize")) >= 1
    /\ methods = {}

\* C9: after on_epoch_start_update(epoch) the shared epoch holds the epoch
\* index and the shared step holds the network's current step; no
\* function is compiled again.
C9_EpochAndStepPushed ==
    last.op = "on_epoch_start_update" =>
        /\ variables.epoch = last.input
        /\ variables.step = step
        /\ Len(EventsOf("compile")) = 3

\* C10 as stated: initialize() is called exactly once on each layer of the
\* pipeline, in pipeline order, before the variables are built and the
\* functions compiled, and init_variables and init_methods run once.
C10_EveryLayerInitialized ==
    (layers # <<>> /\ pc # "init_layers") =>
        /\ Args(EventsOf("initialize")) = [i \in 1..Len(layers) |-> i]
        /\ Len(EventsOf("init_variables")) <= 1
        /\ Len(EventsOf("init_methods")) <= 1

\* C10 amended: initialize() is called exactly once on each layer of the
\* pipeline except the terminal Output layer, in pipeline order, every
\* such call before the variables are built and before any function is
\* compiled; init_variables and init_methods run exactly once, each
\* function is compiled once, and no call on the constructed network adds
\* an initialize(), init_variables or compile event.
C10_TrainLayersInitializedOnce ==
    (layers # <<>> /\ pc # "init_layers") =>
        /\ Args(EventsOf("initialize")) = [i \in 1..(Len(layers) - 1) |-> i]
        /\ \A a \in Positions("initialize") :
                \A b \in Positions("init_variables") \cup
                         Positions("init_methods") \cup Positions("compile") :
                    a < b
        /\ Len(EventsOf("init_variables")) <= 1
        /\ Len(EventsOf("init_methods")) <= 1
        /\ (variables.built <=> Len(EventsOf("init_variables")) = 1)
        /\ (methods # {} <=> Len(EventsOf("init_methods")) = 1)
        /\ Cardinality(methods) = Len(EventsOf("compile"))
        /\ (pc = "ready" =>
                /\ Len(EventsOf("init_variables")) = 1
                /\ Args(EventsOf("compile")) = <<1, 2, 3>>)

C10_Witness ==
    /\ pc = "ready"
    /\ Len(layers) = 3
    /\ last.op = "train_epoch"
    /\ params # last.pre
    /\ Args(EventsOf("initialize")) = <<1, 2>>

====
